---------------------------- MODULE Spec2Model ----------------------------
(***************************************************************************)
(* State-machine model of ei/main_view.py (class MainView): the guidance   *)
(* state classifier, the marker-following controller, the waypoint         *)
(* controller, the manual key handlers, the range-scan callback and the    *)
(* mode switches.                                                          *)
(*                                                                         *)
(* Numbers.  Pixel coordinates, centimetres and degrees are integers.      *)
(* Published velocity magnitudes are kept in hundredths (20.0 is 2000), so *)
(* that the gains 0.4, 0.2, 1.5 and .04 of the control laws stay exact.    *)
(* A Python None, and an absent marker quad, is the empty tuple <<>>.      *)
(* numpy indexes from 0 and TLA+ from 1: quad[:, 1] is p[2] of each point, *)
(* and ray i of a scan is element i + 1 of the sequence.                   *)
(***************************************************************************)
EXTENDS Integers, Sequences, FiniteSets, TLC

None == <<>>

\* ---- module constants of main_view.py
MANUAL_MODE == 0
QR_CODE_MODE == 1
LIDAR_MODE == 2

STATE_LOST == 0
STATE_ALIGN_RIGHT == 1
STATE_ALIGN_LEFT == 2
STATE_FORWARD == 3
STATE_BACKWARD == 4
STATE_FINISH == 5

\* calculate_distance_from_qr_code
known_width == 100
known_distance == 40

\* update_state
state_alignment_tolerance == 50
state_position_tolerance == 3
target_distance == 30

\* go_to_destination
alignment_tolerance == 4
position_tolerance == 5

\* __init__ / lidar_scan_callback / mouse_input
map_size_meters == 5
n_angles == 360
display_cutoff == 750
map_origin_x == 965
map_origin_y == 405
map_pixels == 300

\* ---- bounds of the model
MaxHandled == 2
MaxHeld == 1
MaxRays == 2

\* ---- arithmetic helpers
Abs(n) == IF n < 0 THEN -n ELSE n

\* np.min([a, b])
NpMin(a, b) == IF a <= b THEN a ELSE b

\* np.sqrt on the perfect squares the model's quads produce
NpSqrt(n) == CHOOSE r \in 0..1000 : r * r = n

\* distance_btw = lambda x, y: np.sqrt(np.dot(x - y, x - y))
distance_btw(x, y) ==
    NpSqrt((x[1] - y[1]) * (x[1] - y[1]) + (x[2] - y[2]) * (x[2] - y[2]))

\* Sum of the three edge lengths points[i], points[i + 1] for i in range(3);
\* np.mean of them is EdgeSum / 3.
EdgeSum(points) ==
    distance_btw(points[1], points[2]) + distance_btw(points[2], points[3])
        + distance_btw(points[3], points[4])

\* (known_distance * known_width) / np.mean(edges), kept as the exact fraction
\* num / den.  den = 0 is the numpy division by a zero mean: the result is
\* +inf (numpy warns and does not raise).
calculate_distance_from_qr_code(points) ==
    [num |-> known_distance * known_width * 3, den |-> EdgeSum(points)]

\* distance > c and distance < c for the fraction above (+inf when den = 0)
DistGt(d, c) == IF d.den = 0 THEN TRUE ELSE d.num > c * d.den
DistLt(d, c) == IF d.den = 0 THEN FALSE ELSE d.num < c * d.den

\* Sum of quad[:, 1]; np.mean(quad[:, 1]) is PosSum / 4.
PosSum(quad) == quad[1][2] + quad[2][2] + quad[3][2] + quad[4][2]

\* np.mean(quad[:, 1]) for the quads of the model, whose sum is a multiple of 4
NpMeanCol1(quad) == PosSum(quad) \div 4


\* ---- state
VARIABLES
    mode,                    \* self.mode
    state,                   \* self.state
    last_state,              \* self.last_state
    camera_image,            \* self.camera_image: None, or the surface's <<width, height>>
    qr_code_center_x,        \* self.qr_code_center_x
    distance_to_qr_code,     \* self.distance_to_qr_code
    lastErr_w, preLastErr_w, errSum_w,
    lastErr_l, preLastErr_l, errSum_l,
    pos,                     \* self.pos
    destination,             \* self.destination
    last_angle,              \* self.last_angle
    cumulative_error_angle,  \* self.cumulative_error_angle
    lidar_image,             \* self.lidar_image: None, or the rays drawn into it
    held,                    \* keys the operator holds down
    cmd_vel,                 \* what the last handler put on turtle/cmd_vel, in order
    scans_mm,                \* what the last handler handed to slam.update as scans_mm
    op,                      \* the last handler that ran
    arg,                     \* its input
    writer,                  \* the controller whose code published cmd_vel
    raised,                  \* the exception the last handler raised, "" for none
    dest_selected,           \* a click was accepted or set_destination was called
    scanned,                 \* a range scan was processed
    handled,                 \* guidance-state transitions the marker controller handled
    unanswered,              \* self.state changed in QR_CODE_MODE and nothing was published since
    pin,                     \* a remembered earlier update_state call and its result
    pc,                      \* where the subscriber thread and the main loop are inside
                             \* lidar_scan_callback and update: "idle", or the line reached
    locals                   \* the locals of the update in progress

marker_vars ==
    <<state, last_state, camera_image, qr_code_center_x, distance_to_qr_code,
      unanswered>>
pid_vars ==
    <<lastErr_w, preLastErr_w, errSum_w, lastErr_l, preLastErr_l, errSum_l>>
waypoint_vars ==
    <<pos, destination, last_angle, cumulative_error_angle, lidar_image,
      dest_selected, scanned>>
vars ==
    <<mode, marker_vars, pid_vars, waypoint_vars, held, cmd_vel, scans_mm, op,
      arg, writer, raised, handled, pin, pc, locals>>
thread_vars == <<pc, locals>>

AllStates ==
    {STATE_LOST, STATE_ALIGN_RIGHT, STATE_ALIGN_LEFT, STATE_FORWARD,
     STATE_BACKWARD, STATE_FINISH}

\* MainView.__init__
Init ==
    /\ mode = MANUAL_MODE
    /\ state = STATE_FINISH
    /\ last_state = -1
    /\ camera_image = None
    /\ qr_code_center_x = 0
    /\ distance_to_qr_code = 0
    /\ lastErr_w = 0 /\ preLastErr_w = 0 /\ errSum_w = 0
    /\ lastErr_l = 0 /\ preLastErr_l = 0 /\ errSum_l = 0
    /\ pos = <<0, 0, 0>>
    /\ destination = <<0, 0>>
    /\ last_angle = 0
    /\ cumulative_error_angle = 0
    /\ lidar_image = None
    /\ held = {}
    /\ cmd_vel = <<>>
    /\ scans_mm = None
    /\ op = "__init__"
    /\ arg = None
    /\ writer = "none"
    /\ raised = ""
    /\ dest_selected = FALSE
    /\ scanned = FALSE
    /\ handled = 0
    /\ unanswered = FALSE
    /\ pin = None
    /\ pc = [lidar_scan_callback |-> "idle", update |-> "idle"]
    /\ locals = <<>>

\* An exception that escapes update leaves the main loop: nothing in this file
\* catches it.  An exception in a subscriber callback ends that callback only.
Running == ~(op = "update" /\ raised # "")

\* What a handler that publishes nothing and raises nothing leaves behind.
Quiet == cmd_vel' = <<>> /\ writer' = "none" /\ raised' = ""

\* ---- guidance state machine

\* The missing-else slip: the last rule assigns nothing.
update_state_no_else(image_shape, quad) ==
    LET width == image_shape[1]
        distance == calculate_distance_from_qr_code(quad)
    IN  IF quad = None THEN state' = STATE_LOST
        ELSE IF 2 * PosSum(quad) > 4 * width + 8 * state_alignment_tolerance
             THEN state' = STATE_ALIGN_RIGHT
        ELSE IF 2 * PosSum(quad) < 4 * width - 8 * state_alignment_tolerance
             THEN state' = STATE_ALIGN_LEFT
        ELSE IF DistGt(distance, target_distance + state_position_tolerance)
             THEN state' = STATE_FORWARD
        ELSE IF DistLt(distance, target_distance - state_position_tolerance)
             THEN state' = STATE_BACKWARD
        ELSE state' = state

\* update_state with >= and <= for > and < in the lateral tests
update_state_inclusive(image_shape, quad) ==
    LET width == image_shape[1]
        distance == calculate_distance_from_qr_code(quad)
    IN  IF quad = None THEN state' = STATE_LOST
        ELSE IF 2 * PosSum(quad) >= 4 * width + 8 * state_alignment_tolerance
             THEN state' = STATE_ALIGN_RIGHT
        ELSE IF 2 * PosSum(quad) <= 4 * width - 8 * state_alignment_tolerance
             THEN state' = STATE_ALIGN_LEFT
        ELSE IF DistGt(distance, target_distance + state_position_tolerance)
             THEN state' = STATE_FORWARD
        ELSE IF DistLt(distance, target_distance - state_position_tolerance)
             THEN state' = STATE_BACKWARD
        ELSE state' = STATE_FINISH

\* MainView.update_state.  position > width / 2 + alignment_tolerance is
\* compared exactly, both sides times 8 (position is PosSum / 4).
update_state(image_shape, quad) ==
    LET width == image_shape[1]
        distance == calculate_distance_from_qr_code(quad)
    IN  IF quad = None THEN state' = STATE_LOST
        ELSE IF 2 * PosSum(quad) > 4 * width + 8 * state_alignment_tolerance
             THEN state' = STATE_ALIGN_RIGHT
        ELSE IF 2 * PosSum(quad) < 4 * width - 8 * state_alignment_tolerance
             THEN state' = STATE_ALIGN_LEFT
        ELSE IF DistGt(distance, target_distance + state_position_tolerance)
             THEN state' = STATE_FORWARD
        ELSE IF DistLt(distance, target_distance - state_position_tolerance)
             THEN state' = STATE_BACKWARD
        ELSE state' = STATE_FINISH

\* MainView.camera_image_callback for a decoded frame of shape image_shape in
\* which the detector found quad (None: no marker) and solvePnP gave a
\* translation with np.linalg.norm(tvec) * 4 = tvec_norm4.
camera_image_callback(image_shape, quad, tvec_norm4) ==
    /\ Running
    /\ IF quad # None
       THEN /\ qr_code_center_x' = NpMeanCol1(quad)
            /\ distance_to_qr_code' = tvec_norm4
       ELSE UNCHANGED <<qr_code_center_x, distance_to_qr_code>>
    /\ update_state(image_shape, quad)
    /\ unanswered' = (unanswered \/ (mode = QR_CODE_MODE /\ state' # state))
    /\ camera_image' = image_shape
    /\ Quiet
    /\ scans_mm' = None
    /\ op' = "camera_image_callback"
    /\ arg' = <<image_shape, quad>>
    /\ UNCHANGED <<mode, last_state, pid_vars, waypoint_vars, held, handled, pin,
                   thread_vars>>

\* ---- command dispatch

Forward(v) == <<"Forward", v>>
Rotate(v) == <<"Rotate", v>>

\* MainView.set_movement
set_movement(linear, angular) == cmd_vel' = <<Forward(linear), Rotate(angular)>>

\* ---- marker-following controller

\* The match statement with the two kinds of command exchanged
Dispatch_swapped(s, vel_w, vel_l) ==
    IF s = 1 \/ s = 2 THEN <<Forward(vel_l)>>
    ELSE IF s = 3 \/ s = 4 THEN <<Rotate(vel_w)>>
    ELSE <<>>

\* The match statement of update: the command dispatched for guidance state s.
Dispatch(s, vel_w, vel_l) ==
    IF s = 1 \/ s = 2 THEN <<Rotate(vel_w)>>
    ELSE IF s = 3 \/ s = 4 THEN <<Forward(vel_l)>>
    ELSE <<>>

\* The marker-following branch without its state != last_state test: it
\* answers every cycle.
marker_follow_level ==
    IF camera_image = None
    THEN /\ cmd_vel' = <<Forward(0), Rotate(0)>>
         /\ writer' = "marker"
         /\ raised' = "AttributeError"
         /\ unanswered' = FALSE
         /\ UNCHANGED <<last_state, pid_vars, handled>>
    ELSE LET err_w == -qr_code_center_x + camera_image[1] \div 2
             err_l == distance_to_qr_code - target_distance
             dErr_w == err_w - lastErr_w
             dErr_l == err_l - lastErr_l
             vel_w == 40 * err_w + 0 * (errSum_w + err_w) + 20 * dErr_w
             vel_l == NpMin(150 * err_l + 0 * (errSum_l + err_l) + 20 * dErr_l, 2000)
         IN  /\ handled < MaxHandled
             /\ handled' = handled + 1
             /\ preLastErr_w' = lastErr_w
             /\ lastErr_w' = err_w
             /\ errSum_w' = errSum_w + err_w
             /\ preLastErr_l' = lastErr_l
             /\ lastErr_l' = err_l
             /\ errSum_l' = errSum_l + err_l
             /\ cmd_vel' = <<Forward(0), Rotate(0)>> \o Dispatch(state, vel_w, vel_l)
             /\ writer' = "marker"
             /\ raised' = ""
             /\ unanswered' = FALSE
             /\ last_state' = state

\* The marker-following branch without the two zero commands of lines 409-410
marker_follow_unsettled ==
    IF state # last_state
    THEN IF camera_image = None
         THEN /\ cmd_vel' = <<>>
              /\ writer' = "marker"
              /\ raised' = "AttributeError"
              /\ unanswered' = FALSE
              /\ UNCHANGED <<last_state, pid_vars, handled>>
         ELSE LET err_w == -qr_code_center_x + camera_image[1] \div 2
                  err_l == distance_to_qr_code - target_distance
                  dErr_w == err_w - lastErr_w
                  dErr_l == err_l - lastErr_l
                  vel_w == 40 * err_w + 0 * (errSum_w + err_w) + 20 * dErr_w
                  vel_l == NpMin(150 * err_l + 0 * (errSum_l + err_l) + 20 * dErr_l,
                                 2000)
              IN  /\ handled < MaxHandled
                  /\ handled' = handled + 1
                  /\ preLastErr_w' = lastErr_w
                  /\ lastErr_w' = err_w
                  /\ errSum_w' = errSum_w + err_w
                  /\ preLastErr_l' = lastErr_l
                  /\ lastErr_l' = err_l
                  /\ errSum_l' = errSum_l + err_l
                  /\ cmd_vel' = Dispatch(state, vel_w, vel_l)
                  /\ writer' = "marker"
                  /\ raised' = ""
                  /\ unanswered' = FALSE
                  /\ last_state' = state
    ELSE /\ Quiet
         /\ UNCHANGED <<last_state, pid_vars, handled, unanswered>>

\* The QR_CODE_MODE branch of update.  With no frame received yet,
\* self.camera_image.get_width() raises AttributeError after the two zero
\* commands are out.  The frames of the model have an even width, so
\* get_width() / 2 is an integer.
marker_follow ==
    IF state # last_state
    THEN IF camera_image = None
         THEN /\ cmd_vel' = <<Forward(0), Rotate(0)>>
              /\ writer' = "marker"
              /\ raised' = "AttributeError"
              /\ unanswered' = FALSE
              /\ UNCHANGED <<last_state, pid_vars, handled>>
         ELSE LET err_w == -qr_code_center_x + camera_image[1] \div 2
                  err_l == distance_to_qr_code - target_distance
                  dErr_w == err_w - lastErr_w
                  dErr_l == err_l - lastErr_l
                  vel_w == 40 * err_w + 0 * (errSum_w + err_w) + 20 * dErr_w
                  vel_l == NpMin(150 * err_l + 0 * (errSum_l + err_l) + 20 * dErr_l,
                                 2000)
              IN  /\ handled < MaxHandled
                  /\ handled' = handled + 1
                  /\ preLastErr_w' = lastErr_w
                  /\ lastErr_w' = err_w
                  /\ errSum_w' = errSum_w + err_w
                  /\ preLastErr_l' = lastErr_l
                  /\ lastErr_l' = err_l
                  /\ errSum_l' = errSum_l + err_l
                  /\ cmd_vel' = <<Forward(0), Rotate(0)>> \o Dispatch(state, vel_w, vel_l)
                  /\ writer' = "marker"
                  /\ raised' = ""
                  /\ unanswered' = FALSE
                  /\ last_state' = state
    ELSE /\ Quiet
         /\ UNCHANGED <<last_state, pid_vars, handled, unanswered>>

\* ---- waypoint controller

\* np.arctan(y / x) in degrees, for the direction vectors of the model (on an
\* axis or a diagonal), where it is exact.  y / x is a numpy division: 0 / 0 is
\* nan and y / 0 is +inf or -inf, whose arctangent is +90 or -90.
ArcTanDeg(y, x) ==
    CASE x = 0 /\ y = 0 -> [nan |-> TRUE, deg |-> 0]
      [] x = 0 /\ y > 0 -> [nan |-> FALSE, deg |-> 90]
      [] x = 0 /\ y < 0 -> [nan |-> FALSE, deg |-> -90]
      [] x # 0 /\ y = 0 -> [nan |-> FALSE, deg |-> 0]
      [] x # 0 /\ y = x -> [nan |-> FALSE, deg |-> 45]
      [] x # 0 /\ y = -x -> [nan |-> FALSE, deg |-> -45]

\* (np.pi + np.arctan(y / x) if x >= 0 else np.arctan(y / x)) * 180 / np.pi
relative_position_angle(x, y) ==
    LET a == ArcTanDeg(y, x)
    IN  IF x >= 0 THEN [nan |-> a.nan, deg |-> 180 + a.deg] ELSE a

\* go_to_destination with >= for > in the distance tests
go_to_destination_ge ==
    IF destination = None
    THEN /\ set_movement(0, 0)
         /\ UNCHANGED <<last_angle, cumulative_error_angle>>
    ELSE LET x == destination[1] - pos[1]
             y == destination[2] - pos[2]
             angle == pos[3]
             rpa == relative_position_angle(x, y)
             relative_angle == rpa.deg - angle
             far == x * x + y * y >= position_tolerance * position_tolerance
             off == ~rpa.nan /\ Abs(relative_angle) > alignment_tolerance
             alpha == 100 * relative_angle + 200 * (relative_angle - last_angle)
                          + 4 * cumulative_error_angle
         IN  IF off /\ far
             THEN /\ set_movement(0, alpha)
                  /\ cumulative_error_angle' =
                         cumulative_error_angle + (relative_angle - last_angle)
                  /\ last_angle' = relative_angle
             ELSE IF far
             THEN /\ set_movement(2000, 0)
                  /\ UNCHANGED <<last_angle, cumulative_error_angle>>
             ELSE /\ set_movement(0, 0)
                  /\ UNCHANGED <<last_angle, cumulative_error_angle>>

\* go_to_destination translating while it turns
go_to_destination_arc ==
    IF destination = None
    THEN /\ set_movement(0, 0)
         /\ UNCHANGED <<last_angle, cumulative_error_angle>>
    ELSE LET x == destination[1] - pos[1]
             y == destination[2] - pos[2]
             angle == pos[3]
             rpa == relative_position_angle(x, y)
             relative_angle == rpa.deg - angle
             far == x * x + y * y > position_tolerance * position_tolerance
             off == ~rpa.nan /\ Abs(relative_angle) > alignment_tolerance
             alpha == 100 * relative_angle + 200 * (relative_angle - last_angle)
                          + 4 * cumulative_error_angle
         IN  IF off /\ far
             THEN /\ set_movement(2000, alpha)
                  /\ cumulative_error_angle' =
                         cumulative_error_angle + (relative_angle - last_angle)
                  /\ last_angle' = relative_angle
             ELSE IF far
             THEN /\ set_movement(2000, 0)
                  /\ UNCHANGED <<last_angle, cumulative_error_angle>>
             ELSE /\ set_movement(0, 0)
                  /\ UNCHANGED <<last_angle, cumulative_error_angle>>

\* go_to_destination with an accumulator that sums the angle errors
go_to_destination_sum ==
    IF destination = None
    THEN /\ set_movement(0, 0)
         /\ UNCHANGED <<last_angle, cumulative_error_angle>>
    ELSE LET x == destination[1] - pos[1]
             y == destination[2] - pos[2]
             angle == pos[3]
             rpa == relative_position_angle(x, y)
             relative_angle == rpa.deg - angle
             far == x * x + y * y > position_tolerance * position_tolerance
             off == ~rpa.nan /\ Abs(relative_angle) > alignment_tolerance
             alpha == 100 * relative_angle + 200 * (relative_angle - last_angle)
                          + 4 * cumulative_error_angle
         IN  IF off /\ far
             THEN /\ set_movement(0, alpha)
                  /\ cumulative_error_angle' =
                         cumulative_error_angle + relative_angle
                  /\ last_angle' = relative_angle
             ELSE IF far
             THEN /\ set_movement(2000, 0)
                  /\ UNCHANGED <<last_angle, cumulative_error_angle>>
             ELSE /\ set_movement(0, 0)
                  /\ UNCHANGED <<last_angle, cumulative_error_angle>>

\* The body of MainView.go_to_destination from line 317 on, for the values
\* position = self.pos[0], self.pos[1] and angle = self.pos[2] that lines
\* 321-322 read.  A comparison with nan is false.
\* relative_distance > position_tolerance is compared on the squares.
go_to_destination_from(position, angle) ==
    IF destination = None
    THEN /\ set_movement(0, 0)
         /\ UNCHANGED <<last_angle, cumulative_error_angle>>
    ELSE LET x == destination[1] - position[1]
             y == destination[2] - position[2]
             rpa == relative_position_angle(x, y)
             relative_angle == rpa.deg - angle
             far == x * x + y * y > position_tolerance * position_tolerance
             off == ~rpa.nan /\ Abs(relative_angle) > alignment_tolerance
             alpha == 100 * relative_angle + 200 * (relative_angle - last_angle)
                          + 4 * cumulative_error_angle
         IN  IF off /\ far
             THEN /\ set_movement(0, alpha)
                  /\ cumulative_error_angle' =
                         cumulative_error_angle + (relative_angle - last_angle)
                  /\ last_angle' = relative_angle
             ELSE IF far
             THEN /\ set_movement(2000, 0)
                  /\ UNCHANGED <<last_angle, cumulative_error_angle>>
             ELSE /\ set_movement(0, 0)
                  /\ UNCHANGED <<last_angle, cumulative_error_angle>>

\* MainView.go_to_destination, run without interruption: position and angle are
\* read from one self.pos.
go_to_destination ==
    go_to_destination_from(<<pos[1], pos[2]>>, pos[3])

\* MainView.update
update ==
    /\ Running
    /\ IF mode = QR_CODE_MODE
       THEN /\ marker_follow
            /\ UNCHANGED <<last_angle, cumulative_error_angle>>
       ELSE IF mode = LIDAR_MODE
       THEN /\ go_to_destination
            /\ writer' = "waypoint"
            /\ raised' = ""
            /\ UNCHANGED <<last_state, pid_vars, handled, unanswered>>
       ELSE /\ Quiet
            /\ UNCHANGED <<last_state, pid_vars, handled, unanswered, last_angle,
                           cumulative_error_angle>>
    /\ scans_mm' = None
    /\ op' = "update"
    /\ arg' = None
    /\ UNCHANGED <<mode, state, camera_image, qr_code_center_x, distance_to_qr_code,
                   pos, destination, lidar_image, dest_selected, scanned, held, pin,
                   thread_vars>>

\* ---- manual key handlers (Used widgets: first callback on key down, second
\* on key up) and mode buttons

\* What every key handler and button leaves alone.
HandlerFrame ==
    /\ scans_mm' = None
    /\ arg' = None
    /\ UNCHANGED <<marker_vars, pid_vars, waypoint_vars, handled, pin,
                   thread_vars>>

CanPress(k) == k \notin held /\ Cardinality(held) < MaxHeld

\* turtle_up without its mode test
turtle_up_unguarded ==
    /\ Running /\ CanPress("up") /\ held' = held \cup {"up"}
    /\ cmd_vel' = <<Forward(2000)>> /\ writer' = "manual" /\ raised' = ""
    /\ op' = "turtle_up" /\ HandlerFrame /\ UNCHANGED mode

turtle_up ==
    /\ Running /\ CanPress("up") /\ held' = held \cup {"up"}
    /\ IF mode = MANUAL_MODE
       THEN cmd_vel' = <<Forward(2000)>> /\ writer' = "manual" /\ raised' = ""
       ELSE Quiet
    /\ op' = "turtle_up" /\ HandlerFrame /\ UNCHANGED mode

turtle_down ==
    /\ Running /\ CanPress("down") /\ held' = held \cup {"down"}
    /\ IF mode = MANUAL_MODE
       THEN cmd_vel' = <<Forward(-2000)>> /\ writer' = "manual" /\ raised' = ""
       ELSE Quiet
    /\ op' = "turtle_down" /\ HandlerFrame /\ UNCHANGED mode

turtle_left ==
    /\ Running /\ CanPress("left") /\ held' = held \cup {"left"}
    /\ IF mode = MANUAL_MODE
       THEN cmd_vel' = <<Rotate(10000)>> /\ writer' = "manual" /\ raised' = ""
       ELSE Quiet
    /\ op' = "turtle_left" /\ HandlerFrame /\ UNCHANGED mode

turtle_right ==
    /\ Running /\ CanPress("right") /\ held' = held \cup {"right"}
    /\ IF mode = MANUAL_MODE
       THEN cmd_vel' = <<Rotate(-10000)>> /\ writer' = "manual" /\ raised' = ""
       ELSE Quiet
    /\ op' = "turtle_right" /\ HandlerFrame /\ UNCHANGED mode

turtle_standby_up ==
    /\ Running /\ "up" \in held /\ held' = held \ {"up"}
    /\ IF mode = MANUAL_MODE
       THEN cmd_vel' = <<Forward(0)>> /\ writer' = "manual" /\ raised' = ""
       ELSE Quiet
    /\ op' = "turtle_standby_up" /\ HandlerFrame /\ UNCHANGED mode

turtle_standby_down ==
    /\ Running /\ "down" \in held /\ held' = held \ {"down"}
    /\ IF mode = MANUAL_MODE
       THEN cmd_vel' = <<Forward(0)>> /\ writer' = "manual" /\ raised' = ""
       ELSE Quiet
    /\ op' = "turtle_standby_down" /\ HandlerFrame /\ UNCHANGED mode

turtle_standby_left ==
    /\ Running /\ "left" \in held /\ held' = held \ {"left"}
    /\ IF mode = MANUAL_MODE
       THEN cmd_vel' = <<Rotate(0)>> /\ writer' = "manual" /\ raised' = ""
       ELSE Quiet
    /\ op' = "turtle_standby_left" /\ HandlerFrame /\ UNCHANGED mode

turtle_standby_right ==
    /\ Running /\ "right" \in held /\ held' = held \ {"right"}
    /\ IF mode = MANUAL_MODE
       THEN cmd_vel' = <<Rotate(0)>> /\ writer' = "manual" /\ raised' = ""
       ELSE Quiet
    /\ op' = "turtle_standby_right" /\ HandlerFrame /\ UNCHANGED mode

\* switch_to_manual clearing the error history of the marker controller
switch_to_manual_reset ==
    /\ Running /\ mode' = MANUAL_MODE /\ Quiet
    /\ lastErr_w' = 0 /\ preLastErr_w' = 0 /\ errSum_w' = 0
    /\ lastErr_l' = 0 /\ preLastErr_l' = 0 /\ errSum_l' = 0
    /\ op' = "switch_to_manual" /\ scans_mm' = None /\ arg' = None
    /\ UNCHANGED <<marker_vars, waypoint_vars, handled, held, pin,
                   thread_vars>>

switch_to_manual ==
    /\ Running /\ mode' = MANUAL_MODE /\ Quiet
    /\ op' = "switch_to_manual" /\ HandlerFrame /\ UNCHANGED held

switch_to_qrcode ==
    /\ Running /\ mode' = QR_CODE_MODE /\ Quiet
    /\ op' = "switch_to_qrcode" /\ HandlerFrame /\ UNCHANGED held

switch_to_lidar ==
    /\ Running /\ mode' = LIDAR_MODE /\ Quiet
    /\ op' = "switch_to_lidar" /\ HandlerFrame /\ UNCHANGED held

\* ---- destination

\* MainView.set_destination
set_destination(dest) ==
    /\ Running
    /\ destination' = dest
    /\ dest_selected' = TRUE
    /\ Quiet /\ scans_mm' = None
    /\ op' = "set_destination" /\ arg' = dest
    /\ UNCHANGED <<mode, marker_vars, pid_vars, pos, last_angle,
                   cumulative_error_angle, lidar_image, scanned, held, handled, pin,
                   thread_vars>>

\* ((d / 300) * map_size_meters - map_size_meters / 2) * 100 for a pixel offset
\* d from the map's corner; exact for the offsets of the model, multiples of 3.
ClickToCm(d) ==
    (2 * 100 * map_size_meters * d - 100 * map_size_meters * map_pixels)
        \div (2 * map_pixels)

\* MainView.mouse_input, for a click of mouse button `button` at pixel
\* <<px, py>>.  (The buttons that interface.mouse_input may fire are the
\* switch_to_* actions.)
mouse_input(button, px, py) ==
    LET half == (map_size_meters * 100) \div 2
        p1 == -ClickToCm(px - map_origin_x)
        p2 == ClickToCm(py - map_origin_y)
        accepted == /\ button = 1
                    /\ -half < p1 /\ p1 < half
                    /\ -half < p2 /\ p2 < half
    IN  /\ Running
        /\ IF accepted
           THEN destination' = <<p1, p2>> /\ dest_selected' = TRUE
           ELSE UNCHANGED <<destination, dest_selected>>
        /\ Quiet /\ scans_mm' = None
        /\ op' = "mouse_input" /\ arg' = <<button, px, py>>
        /\ UNCHANGED <<mode, marker_vars, pid_vars, pos, last_angle,
                       cumulative_error_angle, lidar_image, scanned, held, handled, pin,
                   thread_vars>>

\* ---- range scan

\* z * 1000.0 for a range of z quarter-metres (scan.ranges is in metres; the
\* ranges of the model are multiples of 0.25 m)
ToMillimetres(z) == (z * 1000) \div 4

\* distances = list(map(lambda z: z * 1000.0, scan.ranges))
Distances(ranges) == [i \in 1..Len(ranges) |-> ToMillimetres(ranges[i])]

\* The rays the drawing loop draws, in order, as <<ray index, distance>>.
Cloud(distances) ==
    SelectSeq([i \in 1..Len(distances) |-> <<i - 1, distances[i]>>],
              LAMBDA e : e[2] < display_cutoff)

\* MainView.lidar_scan_callback for a scan with the given ranges after which
\* slam.getpos() returns slam_pos = <<x_mm, y_mm, theta_degrees>> (multiples of
\* 10 mm in the model).  angles has n_angles entries: angles[i] for a drawn ray
\* i >= n_angles raises IndexError, after self.pos is set and before
\* self.lidar_image is.
lidar_scan_callback(ranges, slam_pos) ==
    LET distances == Distances(ranges)
        half == (map_size_meters * 100) \div 2
        cloud == Cloud(distances)
        overrun == \E k \in 1..Len(cloud) : cloud[k][1] >= n_angles
    IN  /\ Running
        /\ scans_mm' = distances
        /\ pos' = <<slam_pos[1] \div 10 - half, slam_pos[2] \div 10 - half, slam_pos[3]>>
        /\ IF overrun
           THEN raised' = "IndexError" /\ UNCHANGED lidar_image
           ELSE raised' = "" /\ lidar_image' = cloud
        /\ scanned' = TRUE
        /\ cmd_vel' = <<>> /\ writer' = "none"
        /\ op' = "lidar_scan_callback" /\ arg' = ranges
        /\ UNCHANGED <<mode, marker_vars, pid_vars, destination, last_angle,
                       cumulative_error_angle, dest_selected, held, handled, pin,
                   thread_vars>>

\* ---- the handlers statement by statement.  The subscriber callbacks run on
\* the session's thread and update on the main loop's, so a callback may run
\* between two statements of update and update between two of a callback.

At(thread, label) == [pc EXCEPT ![thread] = label]

\* lidar_scan_callback up to its first assignment of self.pos (line 242), the
\* pose as slam.getpos() returns it: millimetres from the map's corner.
lidar_scan_callback_getpos(ranges, slam_pos) ==
    /\ Running /\ pc.lidar_scan_callback = "idle"
    /\ scans_mm' = Distances(ranges)
    /\ pos' = slam_pos
    /\ pc' = At("lidar_scan_callback", "242")
    /\ Quiet /\ op' = "lidar_scan_callback:242" /\ arg' = ranges
    /\ UNCHANGED <<mode, marker_vars, pid_vars, destination, last_angle,
                   cumulative_error_angle, lidar_image, dest_selected, scanned,
                   held, handled, pin, locals>>

\* line 243: the second assignment, to centimetres
lidar_scan_callback_scale ==
    /\ Running /\ pc.lidar_scan_callback = "242"
    /\ pos' = <<pos[1] \div 10, pos[2] \div 10, pos[3]>>
    /\ pc' = At("lidar_scan_callback", "243")
    /\ Quiet /\ op' = "lidar_scan_callback:243" /\ arg' = None
    /\ UNCHANGED <<mode, marker_vars, pid_vars, destination, last_angle,
                   cumulative_error_angle, lidar_image, dest_selected, scanned,
                   held, handled, pin, locals, scans_mm>>

\* lines 244-280: the third assignment, to the map's centre, and the rest of
\* the callback
lidar_scan_callback_centre ==
    LET half == (map_size_meters * 100) \div 2
        cloud == Cloud(scans_mm)
        overrun == \E k \in 1..Len(cloud) : cloud[k][1] >= n_angles
    IN  /\ Running /\ pc.lidar_scan_callback = "243"
        /\ pos' = <<pos[1] - half, pos[2] - half, pos[3]>>
        /\ IF overrun
           THEN raised' = "IndexError" /\ UNCHANGED lidar_image
           ELSE raised' = "" /\ lidar_image' = cloud
        /\ scanned' = TRUE
        /\ pc' = At("lidar_scan_callback", "idle")
        /\ cmd_vel' = <<>> /\ writer' = "none"
        /\ op' = "lidar_scan_callback:280" /\ arg' = None
        /\ UNCHANGED <<mode, marker_vars, pid_vars, destination, last_angle,
                       cumulative_error_angle, dest_selected, held, handled, pin,
                       locals, scans_mm>>

\* What a statement of update that publishes nothing leaves alone.
UpdateFrame ==
    /\ Quiet
    /\ UNCHANGED <<mode, marker_vars, pid_vars, waypoint_vars, held, handled, pin,
                   scans_mm>>

\* update in LIDAR_MODE up to the first read of self.pos, self.pos[0] of line
\* 321; with no destination, the whole of go_to_destination.
go_to_destination_read_x ==
    /\ Running /\ pc.update = "idle" /\ mode = LIDAR_MODE
    /\ IF destination = None
       THEN /\ set_movement(0, 0) /\ writer' = "waypoint" /\ raised' = ""
            /\ op' = "go_to_destination" /\ arg' = None
            /\ UNCHANGED <<pc, locals>>
       ELSE /\ Quiet
            /\ locals' = <<pos[1]>>
            /\ pc' = At("update", "321")
            /\ op' = "update:321" /\ arg' = None
    /\ UNCHANGED <<mode, marker_vars, pid_vars, waypoint_vars, held, handled, pin,
                   scans_mm>>

\* the second read of self.pos, self.pos[1] of line 321
go_to_destination_read_y ==
    /\ Running /\ pc.update = "321"
    /\ locals' = Append(locals, pos[2])
    /\ pc' = At("update", "322")
    /\ op' = "update:322" /\ arg' = None
    /\ UpdateFrame

\* the third read of self.pos, self.pos[2] of line 322, and the rest of
\* go_to_destination, which reads self.pos no more
go_to_destination_finish ==
    /\ Running /\ pc.update = "322"
    /\ go_to_destination_from(<<locals[1], locals[2]>>, pos[3])
    /\ writer' = "waypoint" /\ raised' = ""
    /\ locals' = <<>>
    /\ pc' = At("update", "idle")
    /\ op' = "go_to_destination" /\ arg' = <<locals[1], locals[2], pos[3]>>
    /\ UNCHANGED <<mode, marker_vars, pid_vars, pos, destination, lidar_image,
                   dest_selected, scanned, held, handled, pin, scans_mm>>

\* update in QR_CODE_MODE from the comparison of line 407 to the clamp of line
\* 427: the first read of self.state, the zero pair and the control law.
update_compare ==
    /\ Running /\ pc.update = "idle" /\ mode = QR_CODE_MODE
    /\ IF state = last_state
       THEN /\ Quiet /\ op' = "update"
            /\ UNCHANGED <<pid_vars, handled, unanswered, pc, locals>>
       ELSE IF camera_image = None
       THEN /\ cmd_vel' = <<Forward(0), Rotate(0)>>
            /\ writer' = "marker"
            /\ raised' = "AttributeError"
            /\ unanswered' = FALSE
            /\ op' = "update"
            /\ UNCHANGED <<pid_vars, handled, pc, locals>>
       ELSE LET err_w == -qr_code_center_x + camera_image[1] \div 2
                err_l == distance_to_qr_code - target_distance
                dErr_w == err_w - lastErr_w
                dErr_l == err_l - lastErr_l
                vel_w == 40 * err_w + 0 * (errSum_w + err_w) + 20 * dErr_w
                vel_l == NpMin(150 * err_l + 0 * (errSum_l + err_l) + 20 * dErr_l,
                               2000)
            IN  /\ handled < MaxHandled
                /\ handled' = handled + 1
                /\ preLastErr_w' = lastErr_w
                /\ lastErr_w' = err_w
                /\ errSum_w' = errSum_w + err_w
                /\ preLastErr_l' = lastErr_l
                /\ lastErr_l' = err_l
                /\ errSum_l' = errSum_l + err_l
                /\ cmd_vel' = <<Forward(0), Rotate(0)>>
                /\ writer' = "marker"
                /\ raised' = ""
                /\ unanswered' = FALSE
                /\ locals' = <<vel_w, vel_l>>
                /\ pc' = At("update", "429")
                /\ op' = "update:427"
    /\ arg' = None
    /\ UNCHANGED <<mode, state, last_state, camera_image, qr_code_center_x,
                   distance_to_qr_code, waypoint_vars, held, pin, scans_mm>>

\* lines 429-440: match self.state, the second read of self.state; the state
\* matched is kept in locals.
update_match ==
    /\ Running /\ pc.update = "429"
    /\ cmd_vel' = Dispatch(state, locals[1], locals[2])
    /\ writer' = "marker" /\ raised' = ""
    /\ locals' = Append(locals, state)
    /\ pc' = At("update", "442")
    /\ op' = "update:440" /\ arg' = None
    /\ UNCHANGED <<mode, marker_vars, pid_vars, waypoint_vars, held, handled, pin,
                   scans_mm>>

\* line 442: self.last_state = self.state, the third read of self.state
update_record ==
    /\ Running /\ pc.update = "442"
    /\ last_state' = state
    /\ Quiet
    /\ locals' = <<>>
    /\ pc' = At("update", "idle")
    /\ op' = "update:442" /\ arg' = <<locals[3]>>
    /\ UNCHANGED <<mode, state, camera_image, qr_code_center_x, distance_to_qr_code,
                   unanswered, pid_vars, waypoint_vars, held, handled, pin, scans_mm>>

\* ---- inputs of the model

\* A marker quad: the square with corner <<x0, y0>> and side s.
Square(x0, y0, s) == <<<<x0, y0>>, <<x0 + s, y0>>, <<x0 + s, y0 + s>>, <<x0, y0 + s>>>>

QuadFar == Square(200, 230, 100)      \* centred at 280, 40 cm away
QuadNear == Square(100, 180, 200)     \* centred at 280, 20 cm away
QuadAt == Square(200, 214, 132)       \* centred at 280, about 30.3 cm away
QuadLeft == Square(200, 50, 100)      \* centred at 100
QuadRight == Square(200, 490, 100)    \* centred at 540
QuadEdge == Square(200, 320, 100)     \* centred at 370 = 640 / 2 + 50
QuadPoint == Square(280, 280, 0)      \* collapsed to a point
QuadTilted == <<<<200, 220>>, <<260, 300>>, <<200, 380>>, <<140, 300>>>>
QuadRightNear == Square(100, 440, 200)   \* centred at 540, 20 cm away
QuadLeftPoint == Square(100, 100, 0)     \* collapsed to a point, centred at 100

AllQuads ==
    {None, QuadFar, QuadNear, QuadAt, QuadLeft, QuadRight, QuadEdge, QuadPoint,
     QuadTilted, QuadRightNear, QuadLeftPoint}
AllShapes == {<<640, 480>>, <<480, 640>>, <<481, 640>>}

Frame(shape, quad, tvec_norm4) ==
    [shape |-> shape, quad |-> quad, tvec_norm4 |-> tvec_norm4]

\* Frames: no marker; and the marker off to the left, centred and far, centred
\* and near, centred at the target; solvePnP puts it at 60, 60, 10 and 30 cm.
FrameNone == Frame(<<640, 480>>, None, 0)
FrameLeft == Frame(<<640, 480>>, QuadLeft, 60)
FrameFar == Frame(<<640, 480>>, QuadFar, 60)
FrameNear == Frame(<<640, 480>>, QuadNear, 10)
FrameAt == Frame(<<640, 480>>, QuadAt, 30)

\* Range scans, in quarter-metres: every scan of 1..MaxRays rays at 0.5 m,
\* 0.75 m or 4 m, the full turn of n_angles rays at 4 m, and a scan one ray
\* longer than angles whose last ray is near.
RangeValues == {2, 3, 16}
ShortScans == UNION {[1..n -> RangeValues] : n \in 1..MaxRays}
FullScan == [i \in 1..n_angles |-> 16]
LongScan == [i \in 1..(n_angles + 1) |-> IF i = n_angles + 1 THEN 2 ELSE 16]

\* slam.getpos() results: the map centre at headings 0 and 176, and one metre
\* off the centre.
PoseCentre == <<2500, 2500, 0>>
PoseTurned == <<2500, 2500, 176>>
PoseAway == <<3500, 2500, 0>>

\* Clicks <<button, px, py>>: on the map at (100, 0), (0, 100) and (105, 0),
\* on the map's corner (rejected), and with another mouse button.
ClickEast == <<1, 1055, 555>>
ClickNorth == <<1, 1115, 615>>
ClickNearAway == <<1, 1052, 555>>
ClickCorner == <<1, 965, 405>>
ClickOtherButton == <<3, 1055, 555>>

\* ---- specifications

CameraStep(frames) ==
    \E f \in frames : camera_image_callback(f.shape, f.quad, f.tvec_norm4)

LidarStep(scans, slam_poses) ==
    \E r \in scans, p \in slam_poses : lidar_scan_callback(r, p)

ClickStep(clicks) == \E c \in clicks : mouse_input(c[1], c[2], c[3])

DestStep(dests) == \E d \in dests : set_destination(d)

KeyStep ==
    \/ turtle_up \/ turtle_down \/ turtle_left \/ turtle_right
    \/ turtle_standby_up \/ turtle_standby_down
    \/ turtle_standby_left \/ turtle_standby_right

SwitchStep == switch_to_manual \/ switch_to_qrcode \/ switch_to_lidar

\* The whole program, every handler, on a small set of inputs.
Next ==
    \/ CameraStep({FrameNone, FrameFar})
    \/ LidarStep({<<16, 2>>}, {PoseCentre, PoseAway})
    \/ ClickStep({ClickEast})
    \/ DestStep({None})
    \/ KeyStep
    \/ SwitchStep
    \/ update

Spec == Init /\ [][Next]_vars

\* ---- update_state as a function of its arguments

\* One call update_state(image_shape, quad), from whatever self.state holds,
\* as camera_image_callback makes it; the call may be remembered in pin.
UpdateStateCall(image_shape, quad) ==
    /\ update_state(image_shape, quad)
    /\ op' = "update_state"
    /\ arg' = <<image_shape, quad>>
    /\ pin' \in {pin, <<image_shape, quad, state'>>}
    /\ UNCHANGED <<mode, last_state, camera_image, qr_code_center_x,
                   distance_to_qr_code, pid_vars, waypoint_vars, held, cmd_vel,
                   scans_mm, writer, raised, handled, unanswered, thread_vars>>

NextClassify == \E shape \in AllShapes, quad \in AllQuads : UpdateStateCall(shape, quad)

SpecClassify == Init /\ [][NextClassify]_vars

\* C1: update_state is total and deterministic: whatever the image shape and
\* the quad (absent, or any quad), self.state afterwards is one of the six
\* guidance states, and a call with the same arguments as a remembered earlier
\* call leaves the same state as that call did, whatever self.state was before.
C1_TotalDeterministic ==
    /\ state \in AllStates
    /\ (op = "update_state" /\ pin # None /\ <<pin[1], pin[2]>> = arg)
           => state = pin[3]

\* C1 witness: the collapsed quad classified twice, FORWARD both times.
C1_Witness ==
    /\ op = "update_state"
    /\ pin # None
    /\ <<pin[1], pin[2]>> = arg
    /\ arg[2] = QuadPoint
    /\ arg[1] = <<640, 480>>
    /\ state = STATE_FORWARD

\* C11 as claimed: a quad whose first three edges have zero mean length is
\* reported as no marker, so it never leaves FORWARD, BACKWARD or FINISH; and a
\* quad with a positive mean edge length has a finite, positive distance.
C11_Original ==
    (op = "update_state" /\ arg[2] # None)
        => LET distance == calculate_distance_from_qr_code(arg[2])
           IN  /\ EdgeSum(arg[2]) = 0
                      => state \notin {STATE_FORWARD, STATE_BACKWARD, STATE_FINISH}
               /\ EdgeSum(arg[2]) > 0 => (distance.den > 0 /\ distance.num > 0)

\* C12: the decision order, first match winning, stated on the arguments of
\* the call.  With position = PosSum / 4 and distance = 12000 / EdgeSum (the
\* known size over the mean of three edges): absent quad, LOST; position above
\* width / 2 + 50, ALIGN_RIGHT whatever the distance; below width / 2 - 50,
\* ALIGN_LEFT whatever the distance; otherwise (the thresholds included)
\* distance above 33, FORWARD; below 27, BACKWARD; otherwise FINISH.
C12_DecisionOrder ==
    op = "update_state"
        => LET width == arg[1][1]
               quad == arg[2]
               p4 == PosSum(quad)
               e == EdgeSum(quad)
               size3 == 3 * known_distance * known_width
               far_limit == target_distance + state_position_tolerance
               near_limit == target_distance - state_position_tolerance
               expected ==
                   CASE quad = None -> STATE_LOST
                     [] quad # None /\ p4 > 2 * width + 4 * state_alignment_tolerance
                            -> STATE_ALIGN_RIGHT
                     [] quad # None /\ p4 < 2 * width - 4 * state_alignment_tolerance
                            -> STATE_ALIGN_LEFT
                     [] OTHER ->
                         IF e = 0 \/ size3 > far_limit * e THEN STATE_FORWARD
                         ELSE IF size3 < near_limit * e THEN STATE_BACKWARD
                         ELSE STATE_FINISH
           IN  state = expected

\* C12 witness: a quad exactly on the right-hand lateral threshold (370 =
\* 640 / 2 + 50) at 40 cm falls through to the distance rules: FORWARD.
C12_Witness ==
    /\ op = "update_state"
    /\ arg = <<<<640, 480>>, QuadEdge>>
    /\ 2 * PosSum(arg[2]) = 4 * arg[1][1] + 8 * state_alignment_tolerance
    /\ state = STATE_FORWARD

\* ---- marker following

\* The program with an idle keyboard and mouse, on every kind of frame.
NextMarker ==
    \/ CameraStep({FrameNone, FrameLeft, FrameFar, FrameNear, FrameAt})
    \/ LidarStep({<<16>>}, {PoseAway})
    \/ SwitchStep
    \/ update

SpecMarker == Init /\ [][NextMarker]_vars

ZeroPair == <<Forward(0), Rotate(0)>>

\* C2 as claimed: in marker-follow mode an update cycle with state = last_state
\* publishes nothing, and every change of the guidance state gets its command:
\* an update cycle that finds a change still unanswered publishes.
C2_Original ==
    [][(op' = "update" /\ mode = QR_CODE_MODE)
           => /\ (state = last_state => cmd_vel' = <<>>)
              /\ (unanswered => cmd_vel' # <<>>)]_vars

\* C2 as amended: in marker-follow mode an update cycle with state = last_state
\* publishes nothing, and an update cycle with state # last_state publishes the
\* zero pair once, followed by at most one control-law command (exactly one
\* when the cycle raises nothing and the state is an ALIGN state, FORWARD or
\* BACKWARD).  Changes are seen only by this comparison.
C2_EdgeTriggered ==
    [][(op' = "update" /\ mode = QR_CODE_MODE)
           => IF state = last_state
              THEN cmd_vel' = <<>>
              ELSE /\ Len(cmd_vel') \in {2, 3}
                   /\ SubSeq(cmd_vel', 1, 2) = ZeroPair
                   /\ Len(cmd_vel') = 3 <=> (raised' = "" /\ state \in 1..4)]_vars

\* C2 witness: a second handled transition, to BACKWARD, answered by the zero
\* pair and one control-law command.
C2_Witness ==
    /\ op = "update" /\ mode = QR_CODE_MODE
    /\ handled = 2
    /\ state = STATE_BACKWARD
    /\ Len(cmd_vel) = 3
    /\ SubSeq(cmd_vel, 1, 2) = ZeroPair

\* C3 as claimed: an update in marker-follow mode before any frame raises
\* nothing, computes no error and publishes zero velocity only.
C3_Original ==
    (op = "update" /\ mode = QR_CODE_MODE /\ camera_image = None)
        => /\ raised = ""
           /\ \A i \in 1..Len(cmd_vel) : cmd_vel[i][2] = 0
           /\ lastErr_w = 0 /\ errSum_w = 0 /\ lastErr_l = 0 /\ errSum_l = 0

C14_SettleFirst ==
    (op = "update" /\ mode = QR_CODE_MODE)
        => \/ cmd_vel = <<>>
           \/ /\ Len(cmd_vel) \in {2, 3}
              /\ cmd_vel[1] = Forward(0)
              /\ cmd_vel[2] = Rotate(0)

\* C14 witness: the clamped cruise command of FORWARD behind the zero pair.
C14_Witness ==
    /\ op = "update" /\ mode = QR_CODE_MODE
    /\ state = STATE_FORWARD
    /\ cmd_vel = <<Forward(0), Rotate(0), Forward(2000)>>

\* C17 as claimed: every Forward command of the control law has magnitude at
\* most 20, forwards and backwards.
C17_Original ==
    (op = "update" /\ writer = "marker" /\ Len(cmd_vel) = 3 /\ cmd_vel[3][1] = "Forward")
        => (cmd_vel[3][2] <= 2000 /\ cmd_vel[3][2] >= -2000)

\* ---- waypoint navigation

\* The program with an idle keyboard, a camera that sees no marker, and every
\* pose, click and set_destination call of the model.
NextWaypoint ==
    \/ CameraStep({FrameNone})
    \/ LidarStep({<<16>>}, {PoseCentre, PoseTurned, PoseAway})
    \/ ClickStep({ClickEast, ClickNorth, ClickNearAway, ClickCorner, ClickOtherButton})
    \/ DestStep({None, <<-100, 0>>})
    \/ SwitchStep
    \/ update

SpecWaypoint == Init /\ [][NextWaypoint]_vars

\* x ** 2 + y ** 2 for the vector from self.pos to self.destination
SquaredDistance ==
    (destination[1] - pos[1]) * (destination[1] - pos[1])
        + (destination[2] - pos[2]) * (destination[2] - pos[2])

\* C6: arrival.  A waypoint cycle that finds the destination at most
\* position_tolerance away publishes Forward 0 and Rotate 0, whatever the
\* heading and the angle error, the distance exactly 5 included.
C6_Arrival ==
    (/\ op = "update" /\ mode = LIDAR_MODE
     /\ destination # None
     /\ SquaredDistance <= position_tolerance * position_tolerance)
        => cmd_vel = ZeroPair

\* C6 witness: the destination exactly 5 cm away, behind the robot's heading
\* by the code's angle (180 degrees of angle error).
C6_Witness ==
    /\ op = "update" /\ mode = LIDAR_MODE
    /\ destination = <<105, 0>>
    /\ pos = <<100, 0, 0>>
    /\ cmd_vel = ZeroPair

\* C15: every waypoint cycle publishes exactly one (Forward, Rotate) pair and
\* never one with both values non-zero.  With a destination, when the angle
\* error is out of tolerance and the distance above the position tolerance the
\* pair is (0, control-law rotation); when only the distance is above the
\* tolerance it is (cruise speed, 0).
C15_TurnThenGo ==
    [][(op' = "update" /\ mode = LIDAR_MODE)
           => /\ Len(cmd_vel') = 2
              /\ cmd_vel'[1][1] = "Forward" /\ cmd_vel'[2][1] = "Rotate"
              /\ cmd_vel'[1][2] = 0 \/ cmd_vel'[2][2] = 0
              /\ destination # None
                     => LET rpa == relative_position_angle(destination[1] - pos[1],
                                                           destination[2] - pos[2])
                            err == rpa.deg - pos[3]
                            off == ~rpa.nan /\ (err > alignment_tolerance
                                                  \/ err < -alignment_tolerance)
                            far == SquaredDistance > position_tolerance * position_tolerance
                        IN  /\ (off /\ far)
                                   => cmd_vel' = <<Forward(0),
                                                   Rotate(100 * err + 200 * (err - last_angle)
                                                              + 4 * cumulative_error_angle)>>
                            /\ (~off /\ far) => cmd_vel' = <<Forward(2000), Rotate(0)>>]_vars

\* C15 witness: 180 degrees of angle error one metre from the destination:
\* rotation only.
C15_Witness ==
    /\ op = "update" /\ mode = LIDAR_MODE
    /\ destination # None
    /\ SquaredDistance = 100 * 100
    /\ cmd_vel = <<Forward(0), Rotate(54000)>>

\* C20: in every reachable state cumulative_error_angle equals last_angle.
C20_AccumulatorIsLastError == cumulative_error_angle = last_angle

\* C20 witness: a second rotate cycle, the angle error going from 180 to 94:
\* the accumulator holds 94, not 274.
C20_Witness ==
    /\ op = "update" /\ mode = LIDAR_MODE
    /\ cmd_vel = <<Forward(0), Rotate(100 * 94 + 200 * (94 - 180) + 4 * 180)>>
    /\ last_angle = 94
    /\ cumulative_error_angle = 94

\* C7 as claimed: while no destination was ever selected, every waypoint cycle
\* publishes zero velocity on both channels.
C7_Original ==
    (op = "update" /\ mode = LIDAR_MODE /\ ~dest_selected) => cmd_vel = ZeroPair

\* C8 as claimed: while no range scan was processed, every waypoint cycle
\* publishes zero velocity and raises nothing.
C8_Original ==
    (op = "update" /\ mode = LIDAR_MODE /\ ~scanned)
        => (cmd_vel = ZeroPair /\ raised = "")

\* C9 as claimed: from pose (0, 0, heading 0), the destination (100, 0) gets
\* the pure-forward command and the destination (0, 100) a pure rotation.
C9_Original ==
    (op = "update" /\ mode = LIDAR_MODE /\ pos = <<0, 0, 0>>)
        => /\ destination = <<100, 0>> => cmd_vel = <<Forward(2000), Rotate(0)>>
           /\ destination = <<0, 100>>
                  => (cmd_vel[1] = Forward(0) /\ cmd_vel[2][2] # 0)

\* ---- command arbitration

KeyPressOps == {"turtle_up", "turtle_down", "turtle_left", "turtle_right"}
KeyReleaseOps ==
    {"turtle_standby_up", "turtle_standby_down", "turtle_standby_left",
     "turtle_standby_right"}

\* C5: single writer.  Whatever is published is published by the controller of
\* the selected mode: key handlers only in MANUAL_MODE, the marker-following
\* branch of update only in QR_CODE_MODE, go_to_destination only in LIDAR_MODE,
\* and nothing else publishes.
C5_SingleWriter ==
    cmd_vel # <<>>
        => /\ op \in KeyPressOps \cup KeyReleaseOps \cup {"update"}
           /\ op \in KeyPressOps \cup KeyReleaseOps
                  => (writer = "manual" /\ mode = MANUAL_MODE)
           /\ op = "update" => writer \in {"marker", "waypoint"}
           /\ writer = "marker" => mode = QR_CODE_MODE
           /\ writer = "waypoint" => mode = LIDAR_MODE

\* C5 witness: the waypoint controller drives while a key pressed earlier, in
\* manual mode, is still held.
C5_Witness ==
    /\ op = "update" /\ writer = "waypoint" /\ mode = LIDAR_MODE
    /\ cmd_vel = <<Forward(2000), Rotate(0)>>
    /\ held = {"up"}

SwitchOps == {"switch_to_manual", "switch_to_qrcode", "switch_to_lidar"}

\* The error history as __init__ leaves it.
InitialHistory ==
    /\ pid_vars = <<0, 0, 0, 0, 0, 0>>
    /\ last_angle = 0 /\ cumulative_error_angle = 0
    /\ last_state = -1

\* C16: the mode switches change self.mode and nothing else; the error history
\* of the marker controller and last_state are written only by update in
\* QR_CODE_MODE, last_angle and cumulative_error_angle only by update in
\* LIDAR_MODE, the destination only by a click or set_destination; and no step
\* takes the error history back to what __init__ left.
C16_HistoryOwned ==
    [][/\ op' \in SwitchOps
              => UNCHANGED <<pid_vars, last_angle, cumulative_error_angle, last_state,
                             destination, state, camera_image, qr_code_center_x,
                             distance_to_qr_code, pos, lidar_image>>
       /\ (pid_vars' # pid_vars \/ last_state' # last_state)
              => (op' = "update" /\ mode = QR_CODE_MODE)
       /\ (last_angle' # last_angle \/ cumulative_error_angle' # cumulative_error_angle)
              => (op' = "update" /\ mode = LIDAR_MODE)
       /\ destination' # destination => op' \in {"mouse_input", "set_destination"}
       /\ ~InitialHistory => ~InitialHistory']_vars

\* C16 witness: a switch to manual mode with both controllers' histories
\* written and a destination selected.
C16_Witness ==
    /\ op = "switch_to_manual" /\ mode = MANUAL_MODE
    /\ lastErr_l # 0 /\ errSum_l # 0
    /\ last_angle # 0
    /\ last_state # -1
    /\ destination = <<100, 0>>

\* ---- manual drive, with the scheduling the claim assumes

\* The program with the mouse idle, a camera that sees no marker and a robot
\* that localization keeps at the map centre, its waypoint.
NextLive ==
    \/ CameraStep({FrameNone})
    \/ LidarStep({<<16>>}, {PoseCentre})
    \/ KeyStep
    \/ SwitchStep
    \/ update

\* The main loop keeps calling update, and every key held is released.
SpecLive ==
    /\ Init /\ [][NextLive]_vars
    /\ WF_vars(update)
    /\ WF_vars(turtle_standby_up) /\ WF_vars(turtle_standby_down)
    /\ WF_vars(turtle_standby_left) /\ WF_vars(turtle_standby_right)

Published(c) == \E i \in 1..Len(cmd_vel) : cmd_vel[i] = c

\* C4 as claimed: after a non-zero command published by a key press, a zero
\* command on the same axis is eventually published, whatever the mode
\* switches between the press and the release.
C4_Original ==
    /\ (op \in {"turtle_up", "turtle_down"} /\ cmd_vel # <<>>) ~> Published(Forward(0))
    /\ (op \in {"turtle_left", "turtle_right"} /\ cmd_vel # <<>>) ~> Published(Rotate(0))

\* ---- range scans

\* The program with an idle keyboard and mouse, on every range scan of the
\* model.
NextScan ==
    \/ CameraStep({FrameNone})
    \/ LidarStep(ShortScans \cup {FullScan, LongScan}, {PoseCentre, PoseAway})
    \/ SwitchStep
    \/ update

SpecScan == Init /\ [][NextScan]_vars

\* What the claim says of the callback's outputs for the scan in arg: every
\* ray handed to localization in order and in millimetres, and the cloud
\* exactly the rays below the display cutoff.
ScanOutputsAsClaimed ==
    /\ raised = ""
    /\ Len(scans_mm) = Len(arg)
    /\ \A i \in 1..Len(arg) : 4 * scans_mm[i] = 1000 * arg[i]
    /\ {lidar_image[k] : k \in 1..Len(lidar_image)}
           = {<<i - 1, scans_mm[i]>> : i \in {j \in 1..Len(arg) : 250 * arg[j] < display_cutoff}}
    /\ \A k \in 1..(Len(lidar_image) - 1) : lidar_image[k][1] < lidar_image[k + 1][1]
    /\ arg = FullScan => (lidar_image = <<>> /\ Len(scans_mm) = n_angles)

\* C10 as claimed: for every range scan.
C10_Original == op = "lidar_scan_callback" => ScanOutputsAsClaimed

\* C10 restricted to the scans that angles covers (at most n_angles rays):
\* this much of the claim holds.
C10_CoveredScans ==
    (op = "lidar_scan_callback" /\ Len(arg) <= n_angles) => ScanOutputsAsClaimed

\* ---- the pose, read by update while a scan is processed

\* slam.getpos() results for a robot in the map's corner, at headings 0 and 90.
PoseCorner == <<0, 0, 0>>
PoseCornerTurned == <<0, 0, 90>>

\* The poses self.pos holds between scans: the placeholder of __init__ and the
\* fully transformed poses.
TransformedPoses ==
    {<<0, 0, 0>>}
        \cup {<<p[1] \div 10 - 250, p[2] \div 10 - 250, p[3]>> :
                  p \in {PoseCorner, PoseCornerTurned}}

\* Scans processed statement by statement while the main loop runs waypoint
\* cycles statement by statement; the destination is the map centre throughout.
NextPoseRace ==
    \/ \E p \in {PoseCorner, PoseCornerTurned} : lidar_scan_callback_getpos(<<16>>, p)
    \/ lidar_scan_callback_scale
    \/ lidar_scan_callback_centre
    \/ go_to_destination_read_x
    \/ go_to_destination_read_y
    \/ go_to_destination_finish
    \/ SwitchStep

SpecPoseRace == Init /\ [][NextPoseRace]_vars

\* C18 as claimed: the x, y and heading one waypoint computation uses are
\* those of one fully transformed pose, under every interleaving.
C18_Original ==
    (op = "go_to_destination" /\ arg # None) => arg \in TransformedPoses

\* ---- the guidance state, written by the camera callback while update runs

\* Frames handled while the main loop runs marker-follow cycles statement by
\* statement.
NextStateRace ==
    \/ CameraStep({FrameNone, FrameFar, FrameNear})
    \/ update_compare
    \/ update_match
    \/ update_record
    \/ SwitchStep

SpecStateRace == Init /\ [][NextStateRace]_vars

\* C19 as claimed: the state a marker-follow cycle stores in last_state is the
\* state its match statement dispatched on, under every interleaving.
C19_Original ==
    op = "update:442" => last_state = arg[1]

=============================================================================
